---- MODULE Spec2Model ----
(***************************************************************************)
(* Model of the tile-pyramid engine of mapmaker (src/src/tilemaker.js):    *)
(* TileMaker.makeTiles fans out one tileLayer_ task per selected layer,    *)
(* each of which checks the layer's md5 fingerprint, empties the layer's   *)
(* tile directory, and fans out one tileZoomLevel_ task per zoom level,    *)
(* each of which renders one raster and crops and writes its tiles.        *)
(*                                                                         *)
(* One action of the model is one turn of the JavaScript event loop: the   *)
(* code that runs from the completion of an awaited operation up to the    *)
(* next await, with every promise reaction (microtask) that it triggers.   *)
(***************************************************************************)
EXTENDS Integers, Sequences, FiniteSets, TLC

(***************************************************************************)
(* Bounds of the model.                                                    *)
(***************************************************************************)
\* number of requests that the rasterizer or the file system fails in a run
MaxFaults == 2

(***************************************************************************)
(* The map specification (mapmaker.json) the runs are given.               *)
(***************************************************************************)
\* an optional value: None is JavaScript's undefined (the option is left
\* out, the file does not exist), Some(v) the value v
None == <<>>
Some(v) == <<v>>

TILE_PIXEL_SIZE == <<256, 256>>

MapSize == <<512, 256>>

LayerIds == {"a", "b"}

\* the versions of a layer's SVG source file (its bytes)
SvgVersions == {1, 2}

\* a layer of map.layers; "a" gives a transparent colour and leaves the zoom
\* range out, "b" gives a zoom range
Layer(id) ==
    [id           |-> id,
     sourceExtent |-> Some(<<0, 0, MapSize[1], MapSize[2]>>),
     resolution   |-> None,
     origin       |-> None,
     transparent  |-> IF id = "a" THEN Some("red") ELSE None,
     zoom         |-> IF id = "a" THEN None ELSE Some(<<0, 0>>)]

MapLayers == <<Layer("a"), Layer("b")>>

(***************************************************************************)
(* TileMaker.constructor                                                   *)
(***************************************************************************)
Max(a, b) == IF a >= b THEN a ELSE b

\* Math.ceil(a/b) for a >= 0, b > 0
CeilDiv(a, b) == (a + b - 1) \div b

RECURSIVE Pow2(_)
Pow2(n) == IF n <= 0 THEN 1 ELSE 2 * Pow2(n - 1)

\* Math.floor(Math.log2(n)) for n >= 1
FloorLog2(n) == CHOOSE k \in 0..n : Pow2(k) <= n /\ n < Pow2(k + 1)

\* Math.ceil(Math.log2(n)) for n >= 1
CeilLog2(n) == CHOOSE k \in 0..n : Pow2(k) >= n /\ \A j \in 0..(k - 1) : Pow2(j) < n

tileDims(size) == <<CeilDiv(size[1], TILE_PIXEL_SIZE[1]), CeilDiv(size[2], TILE_PIXEL_SIZE[2])>>

tiledSize(size) == <<TILE_PIXEL_SIZE[1] * tileDims(size)[1], TILE_PIXEL_SIZE[2] * tileDims(size)[2]>>

fullZoom(size) == CeilLog2(Max(tileDims(size)[1], tileDims(size)[2]))

\* new TileMaker(map, ...): the fields of this that the methods read
TileMaker(size) ==
    [map       |-> [size |-> size],
     tileDims  |-> tileDims(size),
     tiledSize |-> tiledSize(size),
     fullZoom  |-> fullZoom(size)]

\* the TileMaker of the runs
This == TileMaker(MapSize)

(***************************************************************************)
(* tileLayer_: the values computed before the fingerprint check            *)
(***************************************************************************)
\* layer.sourceExtent is given for every layer of MapLayers
svgExtent(layer) == layer.sourceExtent[1]

imageSize(this, layer) ==
    IF layer.resolution # None /\ layer.resolution[1] # 0
    THEN <<layer.resolution[1] * svgExtent(layer)[3], layer.resolution[1] * svgExtent(layer)[4]>>
    ELSE this.map.size

zoomRange(this, layer) == IF layer.zoom # None THEN layer.zoom[1] ELSE <<0, this.fullZoom>>

\* x || d of JavaScript, with falsy the falsy values of x's type
OrElse(x, falsy, d) == IF x = None THEN d ELSE IF x[1] \in falsy THEN d ELSE x[1]

\* x || null of JavaScript: None is null, Some(v) the value v
OrNull(x, falsy) == IF x = None THEN None ELSE IF x[1] \in falsy THEN None ELSE x

\* the md5 digest, as the sequence of the values fed to it: two digests are
\* equal iff the fed values are
md5Hash(this, layer, svgBuffer) ==
    <<layer.id,
      svgBuffer,
      this.map.size,
      OrElse(layer.sourceExtent, {}, <<>>),
      OrElse(layer.resolution, {0}, 1),
      OrNull(layer.transparent, {""}),
      zoomRange(this, layer)>>

LayerOf(id) == Layer(id)

AllZooms == 0 .. This.fullZoom

\* a loop over the zoom levels that takes every level of the map
ZoomsOfAll(id) == AllZooms

ZoomsOf(id) == zoomRange(This, LayerOf(id))[1] .. zoomRange(This, LayerOf(id))[2]

(***************************************************************************)
(* Rasters and pixel buffers.  A pixel is <<r, g, b, a>>; a bitmap is kept *)
(* at one pixel per block of BlockSize x BlockSize image pixels, which is  *)
(* exact for pictures that are uniform on each block.                      *)
(***************************************************************************)
BlockSize == TILE_PIXEL_SIZE[1] \div 2

Clear == <<0, 0, 0, 0>>
White == <<255, 255, 255, 255>>
Red   == <<255, 0, 0, 255>>

\* Jimp.cssColorToHex, on the colours used here
cssColorToHex(colour) == IF colour = "red" THEN Red ELSE IF colour = "white" THEN White ELSE Clear

\* what version v of a layer's artwork shows at the point (px, py) of a
\* raster of width w: version 1 is white all over, version 2 is white on
\* the left half and red on the right half
Picture(v, px, py, w) == IF v = 1 \/ 2 * px < w THEN White ELSE Red

\* svgToPng, with Jimp.create: the raster of the whole extent at zoomedSize
svgToPng(svgBuffer, extent, zoomedSize) ==
    [width  |-> zoomedSize[1],
     height |-> zoomedSize[2],
     data   |-> [b \in (0 .. (zoomedSize[1] \div BlockSize) - 1) \X (0 .. (zoomedSize[2] \div BlockSize) - 1)
                   |-> Picture(svgBuffer, b[1] * BlockSize, b[2] * BlockSize, zoomedSize[1])]]

\* cropImage.cropImage: the w x h pixels at (x, y), row by row; pixels
\* outside the image are transparent
cropImage(image, x, y, w, h) ==
    LET cols == w \div BlockSize
        rows == h \div BlockSize
        At(i) == LET bx == (x \div BlockSize) + ((i - 1) % cols)
                     by == (y \div BlockSize) + ((i - 1) \div cols)
                 IN  IF <<bx, by>> \in DOMAIN image.data THEN image.data[<<bx, by>>] ELSE Clear
    IN  [i \in 1 .. (cols * rows) |-> At(i)]

\* the loop of makeTransparent with the flag cleared by the pixels that match
RECURSIVE makeTransparentLoopFlagOnMatch(_, _, _, _)
makeTransparentLoopFlagOnMatch(data, colour, index, transparent) ==
    IF index > Len(data) THEN [data |-> data, result |-> IF transparent THEN "true" ELSE "false"]
    ELSE IF colour = data[index]
         THEN makeTransparentLoopFlagOnMatch([data EXCEPT ![index] = Clear], colour, index + 1, FALSE)
         ELSE makeTransparentLoopFlagOnMatch(data, colour, index + 1, transparent)

\* makeTransparent: the bitmap after the colour-key pass and the value returned
RECURSIVE makeTransparentLoop(_, _, _, _)
makeTransparentLoop(data, colour, index, transparent) ==
    IF index > Len(data) THEN [data |-> data, result |-> IF transparent THEN "true" ELSE "false"]
    ELSE IF colour = data[index]
         THEN makeTransparentLoop([data EXCEPT ![index] = Clear], colour, index + 1, transparent)
         ELSE makeTransparentLoop(data, colour, index + 1,
                                  IF transparent /\ data[index][4] # 0 THEN FALSE ELSE transparent)

makeTransparent(data, transparentColour) ==
    IF transparentColour # None
    THEN makeTransparentLoop(data, cssColorToHex(transparentColour[1]), 1, TRUE)
    ELSE [data |-> data, result |-> "undefined"]

\* transparent: every pixel has alpha 0
transparent(data) == \A index \in 1 .. Len(data) : data[index][4] = 0

\* the test without the scan of transparent(tile)
TileKeptByFlag(data, transparentColour) == makeTransparent(data, transparentColour).result # "true"

\* the test of tileZoomLevel_ that decides whether the tile is written
\* (!undefined and !false are true), and the tile as it is written
TileKept(data, transparentColour) ==
    LET m == makeTransparent(data, transparentColour)
    IN  m.result # "true" /\ ~transparent(m.data)

TilePixels(data, transparentColour) == makeTransparent(data, transparentColour).data

(***************************************************************************)
(* tileZoomLevel_: the geometry of the two nested loops                    *)
(***************************************************************************)
\* zoomScale of a raster that is never downsampled
zoomScaleNone(this, zoomLevel) == 1

zoomScale(this, zoomLevel) == Pow2(this.fullZoom - zoomLevel)

zoomedSize(this, layer, zoomLevel) ==
    <<imageSize(this, layer)[1] \div zoomScale(this, zoomLevel),
      imageSize(this, layer)[2] \div zoomScale(this, zoomLevel)>>

origin(this, layer, zoomLevel) ==
    IF layer.origin # None
    THEN <<layer.origin[1][1] \div zoomScale(this, zoomLevel), layer.origin[1][2] \div zoomScale(this, zoomLevel)>>
    ELSE <<0, 0>>

\* xTileStart of a grid that starts at tile 0 whatever the origin
xTileStartZero(this, layer, z) == 0

xTileStart(this, layer, z) == origin(this, layer, z)[1] \div TILE_PIXEL_SIZE[1]
xStart(this, layer, z) == xTileStart(this, layer, z) * TILE_PIXEL_SIZE[1] - origin(this, layer, z)[1]
yTileStart(this, layer, z) == origin(this, layer, z)[2] \div TILE_PIXEL_SIZE[2]
\* yStart computed as xStart is: row 0 at the top of the image
yStartNoFlip(this, layer, z) == yTileStart(this, layer, z) * TILE_PIXEL_SIZE[2] - origin(this, layer, z)[2]

yStart(this, layer, z) ==
    zoomedSize(this, layer, z)[2] + origin(this, layer, z)[2]
        - yTileStart(this, layer, z) * TILE_PIXEL_SIZE[2] - TILE_PIXEL_SIZE[2]

\* the inner loop: the rows of column x
RECURSIVE Rows(_, _, _, _, _)
Rows(x, xOffset, y, yOffset, first) ==
    IF yOffset > -TILE_PIXEL_SIZE[2]
    THEN <<[x |-> x, y |-> y, xOffset |-> xOffset, yOffset |-> yOffset, first |-> first]>>
         \o Rows(x, xOffset, y + 1, yOffset - TILE_PIXEL_SIZE[2], FALSE)
    ELSE <<>>

\* the outer loop: the columns
RECURSIVE Columns(_, _, _, _, _)
Columns(this, layer, z, x, xOffset) ==
    IF xOffset < zoomedSize(this, layer, z)[1]
    THEN Rows(x, xOffset, yTileStart(this, layer, z), yStart(this, layer, z), TRUE)
         \o Columns(this, layer, z, x + 1, xOffset + TILE_PIXEL_SIZE[1])
    ELSE <<>>

\* the crops of a (layer, zoom level) in the order the loops await them
TileSlices(this, layer, z) == Columns(this, layer, z, xTileStart(this, layer, z), xStart(this, layer, z))

(***************************************************************************)
(* State                                                                   *)
(***************************************************************************)
VARIABLES
    calc,        \* a call under test of one function of the module, and its result
    args,        \* the arguments of the run: force, layer
    svg,         \* svg[l]: the bytes (version) of layer l's source file
    disk,        \* disk[l]: the directory tiles/<l>: md5, tiles, dirs
    pcMain,      \* where makeTiles is
    browser,     \* the puppeteer browser: "none", "open", "closed"
    lpc,         \* lpc[l]: where the tileLayer_ task of layer l is
    lerr,        \* lerr[l]: the error the promise of tileLayer_ was rejected with
    zpc,         \* zpc[l][z]: where the tileZoomLevel_ task of (l, z) is
    zpos,        \* zpos[l][z]: the index in TileSlices of the crop awaited
    dirExists,   \* dirExists[l][z]: the local dirExists of the current column
    pending,     \* pending[l]: the tile writes (tilePromises) not yet completed
    rejected,    \* rejected[l]: the zoom levels with a rejected tilePromise
    log,         \* what makeTiles has written to the console
    disk0,       \* history: disk as it was when the run started
    cleared,     \* history: cleared[l]: emptyDir of l has completed
    renderCalls, \* history: renderCalls[l][z]: number of page.evaluate calls of (l, z)
    written,     \* history: written[l]: the tile paths whose write was issued
    issued,      \* history: issued[l]: number of tile.writeAsync calls of l
    faults       \* history: the <<l, z>> of which the rasterizer has failed to
                 \* draw the raster or the file system to write a tile

vars == <<calc, args, svg, disk, pcMain, browser, lpc, lerr, zpc, zpos, dirExists,
          pending, rejected, log, disk0, cleared, renderCalls, written, issued, faults>>

\* no function is called on its own
NoCall == [op |-> "none"]

NoError == [kind |-> "none", names |-> {}]
ConflictErrorUnnamed(l) == [kind |-> "conflict", names |-> {}]

\* new Error(`Tiles exist for '${layer.id}' layer - use '--force' to overwrite.`)
ConflictError(l) == [kind |-> "conflict", names |-> {l}]
\* the rejection of page.evaluate when svgToPng fails; its message names no layer
RenderError == [kind |-> "render", names |-> {}]
\* the rejection of a call on a browser that has been closed
ClosedError == [kind |-> "closed", names |-> {}]
\* the rejection of tile.writeAsync; its message holds the path of the file
IOError(l) == [kind |-> "io", names |-> {l}]

Units == {u \in LayerIds \X AllZooms : u[2] \in ZoomsOf(u[1])}

EmptyDirectory == [md5 |-> None, tiles |-> {}, dirs |-> {}]

\* a loop over the layers that has no test of layerId
SelectedAll == LayerIds

\* layerId === null || layerId === layer.id
Selected == {l \in LayerIds : args.layer = "null" \/ args.layer = l}

LayerSettled(l) == lpc[l] \in {"none", "skipped", "conflict", "done", "failed"}
ZoomSettled(l, z) == zpc[l][z] \in {"none", "done", "failed"}

\* nothing of the run is left to run: the process exits
RunEnded ==
    /\ pcMain = "returned"
    /\ \A l \in LayerIds : LayerSettled(l) /\ pending[l] = {}
    /\ \A l \in LayerIds : \A z \in AllZooms : ZoomSettled(l, z)

(***************************************************************************)
(* The output directory when the program starts.  A layer's directory is   *)
(* as an earlier run of the program has left it, from some version of the  *)
(* source: it does not exist (no earlier run), or holds the tiles and the  *)
(* md5 file (the run succeeded), or the tiles of the zoom levels that were *)
(* done when another one failed, and no md5 file (the run failed).         *)
(***************************************************************************)
\* the tiles that tileZoomLevel_ writes for zoom level z of layer l from
\* version v of its source: those of the grid that are not fully transparent
TilesAt(l, z, v) ==
    LET layer == LayerOf(l)
        slices == TileSlices(This, layer, z)
        pngImage == svgToPng(v, svgExtent(layer), zoomedSize(This, layer, z))
        Crop(i) == cropImage(pngImage, slices[i].xOffset, slices[i].yOffset,
                             TILE_PIXEL_SIZE[1], TILE_PIXEL_SIZE[2])
    IN  {[z |-> z, x |-> slices[i].x, y |-> slices[i].y, png |-> TilePixels(Crop(i), layer.transparent)] :
            i \in {j \in 1 .. Len(slices) : TileKept(Crop(j), layer.transparent)}}

TilesOf(l, v) == UNION {TilesAt(l, z, v) : z \in ZoomsOf(l)}

DirsOf(tiles) == {<<t.z, t.x>> : t \in tiles}

BuiltDirectory(l, v) ==
    [md5 |-> Some(md5Hash(This, LayerOf(l), v)), tiles |-> TilesOf(l, v), dirs |-> DirsOf(TilesOf(l, v))]

\* what is left when the last zoom level of the range has failed
FailedDirectory(l, v) ==
    LET tiles == UNION {TilesAt(l, z, v) : z \in ZoomsOf(l) \ {zoomRange(This, LayerOf(l))[2]}}
    IN  [md5 |-> None, tiles |-> tiles, dirs |-> DirsOf(tiles)]

PriorDirectories(l) ==
    {EmptyDirectory} \cup {BuiltDirectory(l, v) : v \in SvgVersions}
                     \cup {FailedDirectory(l, v) : v \in SvgVersions}

Init ==
    /\ calc = NoCall
    /\ args \in [force : BOOLEAN, layer : {"null"} \cup LayerIds]
    /\ svg \in [LayerIds -> SvgVersions]
    /\ disk \in {d \in [LayerIds -> UNION {PriorDirectories(l) : l \in LayerIds}] :
                    \A l \in LayerIds : d[l] \in PriorDirectories(l)}
    /\ pcMain = "launch"
    /\ browser = "none"
    /\ lpc = [l \in LayerIds |-> "none"]
    /\ lerr = [l \in LayerIds |-> NoError]
    /\ zpc = [l \in LayerIds |-> [z \in AllZooms |-> "none"]]
    /\ zpos = [l \in LayerIds |-> [z \in AllZooms |-> 0]]
    /\ dirExists = [l \in LayerIds |-> [z \in AllZooms |-> FALSE]]
    /\ pending = [l \in LayerIds |-> {}]
    /\ rejected = [l \in LayerIds |-> {}]
    /\ log = <<>>
    /\ disk0 = disk
    /\ cleared = [l \in LayerIds |-> FALSE]
    /\ renderCalls = [l \in LayerIds |-> [z \in AllZooms |-> 0]]
    /\ written = [l \in LayerIds |-> {}]
    /\ issued = [l \in LayerIds |-> 0]
    /\ faults = {}

(***************************************************************************)
(* tileLayer_ up to its first await: the fingerprint check                 *)
(***************************************************************************)
\* Decide with the force flag tested before the fingerprints are compared
DecideForceFirst(l) ==
    IF disk[l].md5 # None
    THEN IF args.force THEN "emptying"
         ELSE IF disk[l].md5[1] = md5Hash(This, LayerOf(l), svg[l]) THEN "skipped"
         ELSE "conflict"
    ELSE "emptying"

\* Decide without the test of the force flag: a changed layer is regenerated
DecideNoConflict(l) ==
    IF disk[l].md5 # None /\ disk[l].md5[1] = md5Hash(This, LayerOf(l), svg[l]) THEN "skipped"
    ELSE "emptying"

\* "skipped": return; "conflict": throw; "emptying": await fs.emptyDir
Decide(l) ==
    IF disk[l].md5 # None
    THEN IF disk[l].md5[1] = md5Hash(This, LayerOf(l), svg[l]) THEN "skipped"
         ELSE IF ~args.force THEN "conflict"
         ELSE "emptying"
    ELSE "emptying"

(***************************************************************************)
(* makeTiles: Promise.all(layerPromises).catch(e => console.log(e.message))*)
(* and then browser.close().  lp is lpc after this turn and err the error  *)
(* the promise of layer l was rejected with in this turn, if it was.  A    *)
(* log entry is the message logged (error) and, for reference, the layer   *)
(* whose promise was rejected with it (of).                                *)
(***************************************************************************)
LayersFulfilled(lp) == \A l \in Selected : lp[l] \in {"skipped", "done"}

MainReact(lp, l, err) ==
    IF pcMain = "waiting" /\ err # NoError
    THEN pcMain' = "closing" /\ log' = Append(log, [of |-> l, error |-> err])
    ELSE IF pcMain = "waiting" /\ LayersFulfilled(lp)
    THEN pcMain' = "closing" /\ log' = log
    ELSE pcMain' = pcMain /\ log' = log

\* the first layer of map.layers whose promise is rejected already when
\* Promise.all is called: the one whose rejection Promise.all is rejected with
RECURSIVE FirstConflict(_, _)
FirstConflict(layers, decided) ==
    IF layers = <<>> THEN {}
    ELSE IF decided[Head(layers).id] = "conflict" THEN {Head(layers).id}
    ELSE FirstConflict(Tail(layers), decided)

\* makeTiles after puppeteer.launch: the loop over map.layers, which runs
\* every selected tileLayer_ up to its first await, and the reactions of
\* Promise.all to the promises that are settled already
Dispatch ==
    /\ pcMain = "launch"
    /\ browser' = "open"
    /\ LET lp == [l \in LayerIds |-> IF l \in Selected THEN Decide(l) ELSE "none"]
           first == FirstConflict(MapLayers, lp)
       IN  /\ lpc' = lp
           /\ lerr' = [l \in LayerIds |-> IF lp[l] = "conflict" THEN ConflictError(l) ELSE NoError]
           /\ IF first # {}
              THEN /\ pcMain' = "closing"
                   /\ log' = log \o [i \in 1 .. 1 |-> [of |-> CHOOSE l \in first : TRUE,
                                                       error |-> ConflictError(CHOOSE l \in first : TRUE)]]
              ELSE IF \A l \in Selected : lp[l] = "skipped"
              THEN pcMain' = "closing" /\ log' = log
              ELSE pcMain' = "waiting" /\ log' = log
    /\ UNCHANGED <<calc, issued, faults, args, svg, disk, zpc, zpos, dirExists,
                   pending, rejected, disk0, cleared, renderCalls, written>>

\* browser.close() takes effect, and makeTiles returns
Close ==
    /\ pcMain = "closing"
    /\ browser' = "closed"
    /\ pcMain' = "returned"
    /\ UNCHANGED <<calc, issued, faults, args, svg, disk, lpc, lerr, zpc, zpos,
                   dirExists, pending, rejected, log, disk0, cleared, renderCalls, written>>

(***************************************************************************)
(* tileLayer_ after the fingerprint check                                  *)
(***************************************************************************)
\* emptyDir that leaves the md5 file
emptyDirKeepsMd5(directory) == [directory EXCEPT !.tiles = {}, !.dirs = {}]

\* emptyDir that removes the md5 file only
emptyDirKeepsTiles(directory) == [directory EXCEPT !.md5 = None]

\* fs.emptyDir(layerTileDirectory): what is left of the directory
emptyDir(directory) == EmptyDirectory

\* fs.writeFileSync(md5File, md5Hash)
writeMd5(directory, md5) == [directory EXCEPT !.md5 = Some(md5)]

\* await Promise.all(zoomPromises) is over, with zp the tasks' positions
ZoomsComplete(l, zp) == \A z \in ZoomsOf(l) : zp[l][z] = "done"

\* fs.emptyDir has completed: tileLayer_ goes on to browser.newPage()
EmptyDirDone(l) ==
    /\ lpc[l] = "emptying"
    /\ disk' = [disk EXCEPT ![l] = emptyDir(disk[l])]
    /\ cleared' = [cleared EXCEPT ![l] = TRUE]
    /\ lpc' = [lpc EXCEPT ![l] = "newPage"]
    /\ UNCHANGED <<calc, issued, faults, args, svg, pcMain, browser, lerr, zpc, zpos,
                   dirExists, pending, rejected, log, disk0, renderCalls, written>>

\* browser.newPage() has failed, the browser being closed: tileLayer_ throws
NewPageFail(l) ==
    /\ lpc[l] = "newPage"
    /\ browser = "closed"
    /\ LET lp == [lpc EXCEPT ![l] = "failed"]
       IN  /\ lpc' = lp
           /\ lerr' = [lerr EXCEPT ![l] = ClosedError]
           /\ MainReact(lp, l, ClosedError)
    /\ UNCHANGED <<calc, issued, faults, args, svg, disk, browser, zpc, zpos,
                   dirExists, pending, rejected, disk0, cleared, renderCalls, written>>

\* browser.newPage() has completed: the loop over the zoom range starts
\* every tileZoomLevel_, each of which runs up to its await page.evaluate;
\* then tileLayer_ awaits Promise.all(zoomPromises)
NewPageDone(l) ==
    /\ lpc[l] = "newPage"
    /\ browser # "closed"
    /\ zpc' = [zpc EXCEPT ![l] = [z \in AllZooms |-> IF z \in ZoomsOf(l) THEN "render" ELSE "none"]]
    /\ renderCalls' = [renderCalls EXCEPT ![l] = [z \in AllZooms |-> IF z \in ZoomsOf(l) THEN @[z] + 1 ELSE @[z]]]
    /\ LET done == ZoomsComplete(l, zpc')
           lp == [lpc EXCEPT ![l] = IF done THEN "done" ELSE "zooms"]
       IN  /\ lpc' = lp
           /\ disk' = IF done THEN [disk EXCEPT ![l] = writeMd5(@, md5Hash(This, LayerOf(l), svg[l]))]
                      ELSE disk
           /\ MainReact(lp, l, NoError)
    /\ UNCHANGED <<calc, issued, faults, args, svg, browser, lerr, zpos, dirExists,
                   pending, rejected, disk0, cleared, written>>

(***************************************************************************)
(* tileZoomLevel_                                                          *)
(***************************************************************************)
\* the promise of tileZoomLevel_(l, z) is fulfilled; dsk is the disk after
\* this turn's writes.  If it was the last one, tileLayer_ writes the md5
\* file and its promise is fulfilled, to which makeTiles may react.
ZoomDone(l, z, dsk) ==
    LET zp == [zpc EXCEPT ![l][z] = "done"]
        layerDone == lpc[l] = "zooms" /\ ZoomsComplete(l, zp)
        lp == IF layerDone THEN [lpc EXCEPT ![l] = "done"] ELSE lpc
    IN  /\ zpc' = zp
        /\ lpc' = lp
        /\ lerr' = lerr
        /\ disk' = IF layerDone THEN [dsk EXCEPT ![l] = writeMd5(@, md5Hash(This, LayerOf(l), svg[l]))]
                   ELSE dsk
        /\ MainReact(lp, l, NoError)

\* the promise of tileZoomLevel_(l, z) is rejected with err.  The first
\* rejection rejects Promise.all(zoomPromises) and with it tileLayer_, to
\* which makeTiles may react; later ones are ignored.
ZoomFail(l, z, err) ==
    LET layerFails == lpc[l] = "zooms"
        lp == IF layerFails THEN [lpc EXCEPT ![l] = "failed"] ELSE lpc
    IN  /\ zpc' = [zpc EXCEPT ![l][z] = "failed"]
        /\ lpc' = lp
        /\ lerr' = IF layerFails THEN [lerr EXCEPT ![l] = err] ELSE lerr
        /\ MainReact(lp, l, IF layerFails THEN err ELSE NoError)

\* page.evaluate(svgToPng, ...) is rejected: the rasterizer cannot draw the
\* raster
RenderFail(l, z) ==
    /\ zpc[l][z] = "render"
    /\ browser # "closed"
    /\ Cardinality(faults) < MaxFaults
    /\ ZoomFail(l, z, RenderError)
    /\ faults' = faults \cup {<<l, z>>}
    /\ UNCHANGED <<calc, issued, args, svg, disk, browser, zpos, dirExists,
                   pending, rejected, disk0, cleared, renderCalls, written>>

\* page.evaluate(svgToPng, ...) is rejected: the browser has been closed
RenderClosed(l, z) ==
    /\ zpc[l][z] = "render"
    /\ browser = "closed"
    /\ ZoomFail(l, z, ClosedError)
    /\ UNCHANGED <<calc, issued, faults, args, svg, disk, browser, zpos, dirExists,
                   pending, rejected, disk0, cleared, renderCalls, written>>

\* page.evaluate(svgToPng, ...) returns the raster: await Jimp.create
RenderDone(l, z) ==
    /\ zpc[l][z] = "render"
    /\ browser # "closed"
    /\ zpc' = [zpc EXCEPT ![l][z] = "decode"]
    /\ UNCHANGED <<calc, issued, faults, args, svg, disk, pcMain, browser, lpc, lerr,
                   zpos, dirExists, pending, rejected, log, disk0, cleared, renderCalls,
                   written>>

\* TilesComplete of a task that does not wait for its tilePromises
TilesCompleteNoWait(z, pend) == TRUE

\* the tilePromises of zoom level z among the writes pend are all fulfilled
TilesComplete(z, pend) == \A w \in pend : w.z # z

\* fs.existsSync(tileDirectory)
existsSync(directory, z, x) == <<z, x>> \in directory.dirs

\* the rejection of tileZoomLevel_ by an exception of fs.mkdirSync
MkdirError(l) == [kind |-> "mkdir", names |-> {l}]

\* mkdirSync without the recursive option: it throws EEXIST when the
\* directory is there already
mkdirSyncNotRecursive(directory, z, x) ==
    IF <<z, x>> \in directory.dirs
    THEN [directory |-> directory, error |-> TRUE]
    ELSE [directory |-> [directory EXCEPT !.dirs = @ \cup {<<z, x>>}], error |-> FALSE]

\* fs.mkdirSync(tileDirectory, {recursive: true, mode: 0o755}): the
\* directory and its parents are created if they are absent, and a directory
\* that exists is left as it is, without an error
mkdirSync(directory, z, x) ==
    [directory |-> [directory EXCEPT !.dirs = @ \cup {<<z, x>>}], error |-> FALSE]

\* Jimp.create returns the image: the loops run up to the first await
\* cropImage
DecodeDone(l, z) ==
    /\ zpc[l][z] = "decode"
    /\ LET slices == TileSlices(This, LayerOf(l), z)
       IN  IF slices = <<>>
           THEN /\ ZoomDone(l, z, disk)
                /\ UNCHANGED <<zpos, dirExists>>
           ELSE /\ zpc' = [zpc EXCEPT ![l][z] = "crop"]
                /\ zpos' = [zpos EXCEPT ![l][z] = 1]
                /\ dirExists' = [dirExists EXCEPT ![l][z] = existsSync(disk[l], z, slices[1].x)]
                /\ UNCHANGED <<disk, pcMain, lpc, lerr, log>>
    /\ UNCHANGED <<calc, issued, faults, args, svg, browser, pending, rejected,
                   disk0, cleared, renderCalls, written>>

\* cropImage returns the tile: it is tested and, unless transparent, its
\* directory made and its write started; then the loops run up to the
\* next await cropImage, or end and the task awaits Promise.all(tilePromises)
CropDone(l, z) ==
    /\ zpc[l][z] = "crop"
    /\ LET layer == LayerOf(l)
           slices == TileSlices(This, layer, z)
           s == slices[zpos[l][z]]
           pngImage == svgToPng(svg[l], svgExtent(layer), zoomedSize(This, layer, z))
           tile == cropImage(pngImage, s.xOffset, s.yOffset, TILE_PIXEL_SIZE[1], TILE_PIXEL_SIZE[2])
           kept == TileKept(tile, layer.transparent)
           made == mkdirSync(disk[l], z, s.x)
           thrown == kept /\ ~dirExists[l][z] /\ made.error
           dsk == IF kept /\ ~dirExists[l][z]
                  THEN [disk EXCEPT ![l] = made.directory]
                  ELSE disk
           pend == IF kept
                   THEN pending[l] \cup {[z |-> z, x |-> s.x, y |-> s.y,
                                          png |-> TilePixels(tile, layer.transparent)]}
                   ELSE pending[l]
       IN  IF thrown
           THEN \* mkdirSync throws: the task is rejected before the write
                /\ ZoomFail(l, z, MkdirError(l))
                /\ UNCHANGED <<disk, pending, written, issued, zpos, dirExists>>
           ELSE
           /\ pending' = [pending EXCEPT ![l] = pend]
           /\ written' = [written EXCEPT ![l] = IF kept THEN @ \cup {<<z, s.x, s.y>>} ELSE @]
           /\ issued' = [issued EXCEPT ![l] = IF kept THEN @ + 1 ELSE @]
           /\ IF zpos[l][z] < Len(slices)
              THEN /\ zpos' = [zpos EXCEPT ![l][z] = @ + 1]
                   /\ dirExists' = [dirExists EXCEPT ![l][z] =
                                       IF slices[zpos[l][z] + 1].first
                                       THEN existsSync(dsk[l], z, slices[zpos[l][z] + 1].x)
                                       ELSE kept \/ @]
                   /\ disk' = dsk
                   /\ UNCHANGED <<zpc, pcMain, lpc, lerr, log>>
              ELSE /\ dirExists' = [dirExists EXCEPT ![l][z] = kept \/ @]
                   /\ UNCHANGED zpos
                   /\ IF z \in rejected[l]
                      THEN ZoomFail(l, z, IOError(l)) /\ disk' = dsk
                      ELSE IF TilesComplete(z, pend)
                      THEN ZoomDone(l, z, dsk)
                      ELSE /\ zpc' = [zpc EXCEPT ![l][z] = "writes"]
                           /\ disk' = dsk
                           /\ UNCHANGED <<pcMain, lpc, lerr, log>>
    /\ UNCHANGED <<calc, faults, args, svg, browser, rejected, disk0, cleared,
                   renderCalls>>

\* tile.writeAsync of w has completed: the file is on disk; if the task was
\* awaiting Promise.all(tilePromises) and this was the last one, it is done
WriteDone(l, w) ==
    /\ w \in pending[l]
    /\ LET pend == pending[l] \ {w}
           dsk == [disk EXCEPT ![l].tiles =
                      {t \in @ : <<t.z, t.x, t.y>> # <<w.z, w.x, w.y>>} \cup {w}]
       IN  /\ pending' = [pending EXCEPT ![l] = pend]
           /\ IF zpc[l][w.z] = "writes" /\ TilesComplete(w.z, pend)
              THEN ZoomDone(l, w.z, dsk)
              ELSE /\ disk' = dsk
                   /\ UNCHANGED <<zpc, pcMain, lpc, lerr, log>>
    /\ UNCHANGED <<calc, issued, faults, args, svg, browser, zpos, dirExists,
                   rejected, disk0, cleared, renderCalls, written>>

\* tile.writeAsync of w has failed: its promise is rejected, which rejects
\* Promise.all(tilePromises) if the task awaits it already, and else when
\* the task comes to await it
WriteFail(l, w) ==
    /\ w \in pending[l]
    /\ Cardinality(faults) < MaxFaults
    /\ pending' = [pending EXCEPT ![l] = @ \ {w}]
    /\ faults' = faults \cup {<<l, w.z>>}
    /\ IF zpc[l][w.z] = "writes"
       THEN ZoomFail(l, w.z, IOError(l)) /\ UNCHANGED rejected
       ELSE /\ rejected' = [rejected EXCEPT ![l] = @ \cup {w.z}]
            /\ UNCHANGED <<zpc, pcMain, lpc, lerr, log>>
    /\ UNCHANGED <<calc, issued, args, svg, disk, browser, zpos, dirExists,
                   disk0, cleared, renderCalls, written>>

Next ==
    \/ Dispatch
    \/ Close
    \/ \E l \in LayerIds : EmptyDirDone(l)
    \/ \E l \in LayerIds : NewPageFail(l)
    \/ \E l \in LayerIds : NewPageDone(l)
    \/ \E l \in LayerIds, z \in AllZooms : RenderFail(l, z)
    \/ \E l \in LayerIds, z \in AllZooms : RenderClosed(l, z)
    \/ \E l \in LayerIds, z \in AllZooms : RenderDone(l, z)
    \/ \E l \in LayerIds, z \in AllZooms : DecodeDone(l, z)
    \/ \E l \in LayerIds, z \in AllZooms : CropDone(l, z)
    \/ \E l \in LayerIds : \E w \in pending[l] : WriteDone(l, w)
    \/ \E l \in LayerIds : \E w \in pending[l] : WriteFail(l, w)

Spec == Init /\ [][Next]_vars

(***************************************************************************)
(* The functions of the module called on their own, on inputs of a wider   *)
(* range than the runs above give them.  calc holds the call: its inputs,  *)
(* how far it is, and its results.  No run of makeTiles is under way.      *)
(***************************************************************************)
Idle ==
    /\ args = [force |-> FALSE, layer |-> "null"]
    /\ svg = [l \in LayerIds |-> 1]
    /\ disk = [l \in LayerIds |-> EmptyDirectory]
    /\ pcMain = "none"
    /\ browser = "none"
    /\ lpc = [l \in LayerIds |-> "none"]
    /\ lerr = [l \in LayerIds |-> NoError]
    /\ zpc = [l \in LayerIds |-> [z \in AllZooms |-> "none"]]
    /\ zpos = [l \in LayerIds |-> [z \in AllZooms |-> 0]]
    /\ dirExists = [l \in LayerIds |-> [z \in AllZooms |-> FALSE]]
    /\ pending = [l \in LayerIds |-> {}]
    /\ rejected = [l \in LayerIds |-> {}]
    /\ log = <<>>
    /\ disk0 = disk
    /\ cleared = [l \in LayerIds |-> FALSE]
    /\ renderCalls = [l \in LayerIds |-> [z \in AllZooms |-> 0]]
    /\ written = [l \in LayerIds |-> {}]
    /\ issued = [l \in LayerIds |-> 0]
    /\ faults = {}

IdleVars == <<args, svg, disk, pcMain, browser, lpc, lerr, zpc, zpos, dirExists,
              pending, rejected, log, disk0, cleared, renderCalls, written, issued, faults>>

(***************************************************************************)
(* tileZoomLevel_ on maps of other sizes and layers with an origin: the    *)
(* crops that its loops enumerate.                                         *)
(***************************************************************************)
\* widths and heights of a map, in pixels
Lengths == {1, 255, 256, 257, 512, 600}

\* coordinates of a layer's origin
Offsets == {-300, -256, -1, 0, 1, 255, 256, 300}

\* a layer of a map of the given size with the given origin
GridLayer(size, orig) ==
    [id           |-> "a",
     sourceExtent |-> Some(<<0, 0, size[1], size[2]>>),
     resolution   |-> None,
     origin       |-> orig,
     transparent  |-> None,
     zoom         |-> None]

\* the layer of the example: zoom range [0, 1], default origin
ExampleSize == <<512, 512>>
ExampleLayer == [GridLayer(ExampleSize, None) EXCEPT !.zoom = Some(<<0, 1>>)]

\* zoomScale divides the image size and the origin: the divisions of
\* tileZoomLevel_ give integers
Divides(this, layer, z) ==
    LET k == zoomScale(this, z)
    IN  /\ imageSize(this, layer)[1] % k = 0
        /\ imageSize(this, layer)[2] % k = 0
        /\ layer.origin # None => (layer.origin[1][1] % k = 0 /\ layer.origin[1][2] % k = 0)

GridCalls ==
    {[op |-> "tileZoomLevel_", size |-> c[1], layer |-> c[2], zoomLevel |-> c[3],
      stage |-> "called", slices |-> <<>>] :
        c \in {d \in (Lengths \X Lengths)
                     \X ({GridLayer(sz, o) : sz \in Lengths \X Lengths,
                                            o \in {None} \cup {Some(p) : p \in Offsets \X Offsets}}
                         \cup {ExampleLayer})
                     \X (0 .. 2) :
                 /\ d[2].sourceExtent = Some(<<0, 0, d[1][1], d[1][2]>>)
                 /\ d[3] \in zoomRange(TileMaker(d[1]), d[2])[1] .. zoomRange(TileMaker(d[1]), d[2])[2]
                 /\ Divides(TileMaker(d[1]), d[2], d[3])}}

GridInit == Idle /\ calc \in GridCalls

\* tileZoomLevel_ runs its loops
TileZoomLevel ==
    /\ calc.op = "tileZoomLevel_"
    /\ calc.stage = "called"
    /\ calc' = [calc EXCEPT !.stage = "returned",
                            !.slices = TileSlices(TileMaker(calc.size), calc.layer, calc.zoomLevel)]
    /\ UNCHANGED IdleVars

GridNext == TileZoomLevel

GridSpec == GridInit /\ [][GridNext]_vars

(***************************************************************************)
(* makeTransparent, transparent and the test of tileZoomLevel_ on crops    *)
(* of any content, with any transparent colour.                            *)
(***************************************************************************)
\* red with alpha 0, and red with alpha 128
RedClear == <<255, 0, 0, 0>>
RedHalf  == <<255, 0, 0, 128>>

Pixels == {Clear, White, Red, RedClear, RedHalf}

\* the bitmaps of one and of two pixels
Bitmaps == {<<p>> : p \in Pixels} \cup {<<p, q>> : p \in Pixels, q \in Pixels}

\* layer.transparent: left out, or a CSS colour ("transparent" is rgba(0,0,0,0))
TransparentColours == {None, Some("red"), Some("white"), Some("transparent")}

TileCalls ==
    {[op |-> "tile", data |-> d, transparentColour |-> c, stage |-> "cropped",
      keyed |-> [data |-> <<>>, result |-> ""], keyedAgain |-> [data |-> <<>>, result |-> ""],
      tilePromises |-> <<>>] : d \in Bitmaps, c \in TransparentColours}

TileInit == Idle /\ calc \in TileCalls

\* the body of the inner loop of tileZoomLevel_ after cropImage has
\* returned the tile: the test, and the write of the tile that passes it
TestAndWrite ==
    /\ calc.op = "tile"
    /\ calc.stage = "cropped"
    /\ calc' = [calc EXCEPT !.stage = "tested",
                            !.tilePromises =
                                IF TileKept(calc.data, calc.transparentColour)
                                THEN <<TilePixels(calc.data, calc.transparentColour)>>
                                ELSE <<>>]
    /\ UNCHANGED IdleVars

\* makeTransparent(tile, layer.transparent)
ColourKey ==
    /\ calc.op = "tile"
    /\ calc.stage = "cropped"
    /\ calc' = [calc EXCEPT !.stage = "keyed",
                            !.keyed = makeTransparent(calc.data, calc.transparentColour)]
    /\ UNCHANGED IdleVars

\* makeTransparent(tile, layer.transparent) once more, on the same tile
ColourKeyAgain ==
    /\ calc.op = "tile"
    /\ calc.stage = "keyed"
    /\ calc' = [calc EXCEPT !.stage = "keyed again",
                            !.keyedAgain = makeTransparent(calc.keyed.data, calc.transparentColour)]
    /\ UNCHANGED IdleVars

TileNext == TestAndWrite \/ ColourKey \/ ColourKeyAgain

TileSpec == TileInit /\ [][TileNext]_vars

(***************************************************************************)
(* The fingerprint of tileLayer_ on layers with other options and maps of  *)
(* other sizes, computed, and computed again after an edit of one input.   *)
(***************************************************************************)
HashSizes == {<<512, 256>>, <<512, 512>>}

HashLayers ==
    [id           : {"a"},
     sourceExtent : {None, Some(<<0, 0, 512, 256>>), Some(<<0, 0, 1024, 512>>)},
     resolution   : {None, Some(1), Some(2)},
     origin       : {None},
     transparent  : {None, Some("red"), Some("white")},
     zoom         : {None, Some(<<0, 0>>), Some(<<0, 1>>)}]

\* the inputs of the fingerprint: the map's size, the layer, the bytes of
\* its source file
HashInputs == [size : HashSizes, layer : HashLayers, svgBuffer : SvgVersions]

\* the listed inputs in which the inputs i and j differ
Differences(i, j) ==
    {f \in {"source bytes", "map size", "sourceExtent", "resolution", "transparent", "zoom"} :
        \/ f = "source bytes"  /\ i.svgBuffer # j.svgBuffer
        \/ f = "map size"      /\ i.size # j.size
        \/ f = "sourceExtent"  /\ i.layer.sourceExtent # j.layer.sourceExtent
        \/ f = "resolution"    /\ i.layer.resolution # j.layer.resolution
        \/ f = "transparent"   /\ i.layer.transparent # j.layer.transparent
        \/ f = "zoom"          /\ i.layer.zoom # j.layer.zoom}

HashCalls ==
    {[op |-> "md5", inputs |-> i, stage |-> "called", md5Hash |-> <<>>,
      before |-> <<>>, changed |-> {}] : i \in HashInputs}

HashInit == Idle /\ calc \in HashCalls

\* tileLayer_ computes the fingerprint of its inputs
ComputeHash ==
    /\ calc.op = "md5"
    /\ calc.stage = "called"
    /\ calc' = [calc EXCEPT !.stage = "hashed",
                            !.md5Hash = md5Hash(TileMaker(calc.inputs.size), calc.inputs.layer,
                                                calc.inputs.svgBuffer)]
    /\ UNCHANGED IdleVars

\* tileLayer_ computes the fingerprint again, in a later run on the same inputs
ComputeAgain ==
    /\ calc.op = "md5"
    /\ calc.stage = "hashed"
    /\ calc' = [calc EXCEPT !.stage = "hashed again",
                            !.before = calc.md5Hash,
                            !.md5Hash = md5Hash(TileMaker(calc.inputs.size), calc.inputs.layer,
                                                calc.inputs.svgBuffer)]
    /\ UNCHANGED IdleVars

\* one of the inputs is edited, and tileLayer_ computes the fingerprint in
\* a later run
EditAndCompute ==
    /\ calc.op = "md5"
    /\ calc.stage = "hashed"
    /\ \E j \in HashInputs :
          /\ Cardinality(Differences(calc.inputs, j)) = 1
          /\ calc' = [calc EXCEPT !.stage = "edited",
                                  !.inputs = j,
                                  !.changed = Differences(calc.inputs, j),
                                  !.before = calc.md5Hash,
                                  !.md5Hash = md5Hash(TileMaker(j.size), j.layer, j.svgBuffer)]
    /\ UNCHANGED IdleVars

HashNext == ComputeHash \/ ComputeAgain \/ EditAndCompute

HashSpec == HashInit /\ [][HashNext]_vars

(***************************************************************************)
(* Definitions the properties are stated with                              *)
(***************************************************************************)
\* the fingerprint of layer l's current inputs
Fingerprint(l) == md5Hash(This, LayerOf(l), svg[l])

\* makeTiles has started the tasks of the layers
Dispatched == pcMain # "launch"

\* the stored fingerprint at the start of the run: none, equal, different
NoPrior(l)   == disk0[l].md5 = None
CacheHit(l)  == disk0[l].md5 = Some(Fingerprint(l))
Changed(l)   == disk0[l].md5 # None /\ disk0[l].md5 # Some(Fingerprint(l))

\* the tiles of the current grid of layer l that are not fully transparent
ExpectedTiles(l) == TilesOf(l, svg[l])

\* layer l is built: its fingerprint is stored and its tiles are on disk
Built(l) ==
    /\ disk[l].md5 = Some(Fingerprint(l))
    /\ cleared[l] => disk[l] = BuiltDirectory(l, svg[l])

\* the task of layer l has failed
LayerFailed(l) == lpc[l] \in {"conflict", "failed"}

\* the rasterizer and the file system have served every request of layer l
\* so far
Served(l) == \A z \in AllZooms : <<l, z>> \notin faults

\* layer l succeeds when run alone: it has no conflict and none of its
\* requests is refused (if its task fails, it is for the closed browser)
SucceedsAlone(l) == (Changed(l) => args.force) /\ Served(l)

\* layer l fails when run alone
FailsAlone(l) == ~SucceedsAlone(l)

(***************************************************************************)
(* C1: in a run over two or more selected layers in which the task of one  *)
(* layer fails, every other selected layer that would succeed when run     *)
(* alone has all its tiles written and its fingerprint persisted when the  *)
(* run has ended.                                                          *)
(***************************************************************************)
C1_OtherLayersComplete ==
    RunEnded =>
        \A l \in Selected :
            (SucceedsAlone(l) /\ \E k \in Selected \ {l} : FailsAlone(k) /\ LayerFailed(k))
                => Built(l)

(***************************************************************************)
(* C2: in no reachable state does the fingerprint file of the current      *)
(* build of a regenerated layer exist while a tile write of the layer is   *)
(* pending or a zoom level of its range has not finished issuing and       *)
(* completing its tile writes.                                             *)
(***************************************************************************)
C2_FingerprintAfterTiles ==
    \A l \in LayerIds :
        (cleared[l] /\ disk[l].md5 # None) =>
            /\ pending[l] = {}
            /\ \A z \in ZoomsOf(l) : zpc[l][z] = "done"
            /\ \A t \in written[l] : \E f \in disk[l].tiles : <<f.z, f.x, f.y>> = t

C2_Witness ==
    \E l \in LayerIds : cleared[l] /\ disk[l].md5 = Some(Fingerprint(l)) /\ Cardinality(written[l]) >= 2

(***************************************************************************)
(* C3: from the moment a layer's directory is cleared until all of its     *)
(* zoom levels have completed, no fingerprint file exists for the layer:   *)
(* neither the old one nor the new one, also after a zoom level failed.    *)
(***************************************************************************)
C3_NoFingerprintMidBuild ==
    \A l \in LayerIds :
        (cleared[l] /\ \E z \in ZoomsOf(l) : zpc[l][z] # "done") => disk[l].md5 = None

C3_Witness ==
    \E l \in LayerIds :
        /\ cleared[l] /\ disk0[l].md5 # None
        /\ lpc[l] = "failed" /\ disk[l].tiles # {}
        /\ disk[l] = FailedDirectory(l, svg[l])
        /\ RunEnded

(***************************************************************************)
(* C4: when a layer's stored fingerprint equals the computed one, the      *)
(* layer is skipped: no render call, no tile written or deleted, the       *)
(* stored fingerprint unchanged, whether or not force is set.              *)
(***************************************************************************)
C4_CacheShortCircuit ==
    \A l \in Selected :
        (Dispatched /\ CacheHit(l)) =>
            /\ lpc[l] = "skipped"
            /\ \A z \in AllZooms : renderCalls[l][z] = 0
            /\ written[l] = {} /\ pending[l] = {}
            /\ ~cleared[l]
            /\ disk[l] = disk0[l]

C4_Witness ==
    \E l \in Selected :
        Dispatched /\ CacheHit(l) /\ args.force /\ disk0[l].tiles # {} /\ RunEnded

(***************************************************************************)
(* C5: with a stored fingerprint that differs from the computed one and    *)
(* without force, the layer's task raises a conflict error that            *)
(* identifies the layer.                                                   *)
(***************************************************************************)
C5_ConflictRaised ==
    \A l \in Selected :
        (Dispatched /\ Changed(l) /\ ~args.force) =>
            lpc[l] = "conflict" /\ lerr[l].kind = "conflict" /\ lerr[l].names = {l}

C5_Witness ==
    \E l \in Selected : Dispatched /\ Changed(l) /\ ~args.force /\ lpc[l] = "conflict"

(***************************************************************************)
(* C6: on a conflict (stored fingerprint differs, no force) the layer's    *)
(* tile files and stored fingerprint are left exactly as they were: the    *)
(* directory is not cleared, no tile written, no render requested.         *)
(***************************************************************************)
C6_ConflictLeavesOutput ==
    \A l \in Selected :
        (Dispatched /\ Changed(l) /\ ~args.force) =>
            /\ disk[l] = disk0[l]
            /\ ~cleared[l]
            /\ written[l] = {} /\ pending[l] = {}
            /\ \A z \in AllZooms : renderCalls[l][z] = 0

C6_Witness ==
    \E l \in Selected :
        /\ Dispatched /\ Changed(l) /\ ~args.force /\ RunEnded
        /\ disk[l].tiles # {} /\ disk[l].md5 # Some(Fingerprint(l))

(***************************************************************************)
(* C7: with a stored fingerprint that differs from the computed one and    *)
(* with force, the layer's directory is cleared before any new tile is     *)
(* written and the layer is regenerated: when no render and no write      *)
(* fails in the run, it ends with the new fingerprint stored and exactly   *)
(* the new tiles.                                                          *)
(***************************************************************************)
\* no render and no tile write has failed in the run
NoFailure == faults = {}

C7_ForceOverwrite ==
    \A l \in Selected :
        (Dispatched /\ Changed(l) /\ args.force) =>
            /\ lpc[l] \notin {"skipped", "conflict"}
            /\ (written[l] # {} \/ pending[l] # {}) => cleared[l]
            /\ lpc[l] = "newPage" => disk[l] = EmptyDirectory
            /\ \A t \in disk[l].tiles : cleared[l] => <<t.z, t.x, t.y>> \in written[l]
            /\ (RunEnded /\ NoFailure) => (cleared[l] /\ Built(l))

C7_Witness ==
    \E l \in Selected :
        /\ Dispatched /\ Changed(l) /\ args.force /\ RunEnded /\ NoFailure
        /\ disk0[l].tiles # {} /\ disk[l].tiles # disk0[l].tiles

(***************************************************************************)
(* C8: when no fingerprint file exists for a selected layer at the start   *)
(* of a run, the run regenerates the layer: it raises no conflict, clears  *)
(* the directory and starts the tiling of every zoom level of the range.   *)
(***************************************************************************)
C8_NoFingerprintRegenerates ==
    RunEnded =>
        \A l \in Selected :
            NoPrior(l) =>
                /\ lerr[l].kind # "conflict"
                /\ cleared[l]
                /\ \A z \in ZoomsOf(l) : zpc[l][z] # "none"

(***************************************************************************)
(* C9: when a run has ended, what makeTiles reported lists every selected  *)
(* layer that failed, with its reason.                                     *)
(***************************************************************************)
C9_EveryFailureReported ==
    RunEnded =>
        \A l \in Selected :
            LayerFailed(l) =>
                \E i \in 1 .. Len(log) : log[i].of = l /\ log[i].error = lerr[l]

(***************************************************************************)
(* C10: when the rasterizer fails for one (layer, zoom level), every other *)
(* zoom level of a layer that is being regenerated, whose own raster does  *)
(* not fail, completes its render and its tile writes.                     *)
(***************************************************************************)
C10_RenderFailureIsolated ==
    RunEnded =>
        \A u \in faults :
            zpc[u[1]][u[2]] = "failed" =>
                \A v \in Units \ faults :
                    (v[1] \in Selected /\ ~CacheHit(v[1]) /\ (Changed(v[1]) => args.force))
                        => zpc[v[1]][v[2]] = "done"

(***************************************************************************)
(* C11: for every image size W x H and origin O, the 256 x 256 crop        *)
(* rectangles that the two nested loops of tileZoomLevel_ enumerate cover  *)
(* the rectangle (0,0)-(W,H) with no gap, consecutive rectangles are 256   *)
(* pixels apart on each axis, and every rectangle overlaps the image.      *)
(***************************************************************************)
\* the call of tileZoomLevel_ has returned
GridReturned == calc.op = "tileZoomLevel_" /\ calc.stage = "returned"

\* the size of the raster of the call, and the crops' offsets on each axis
GridImage == zoomedSize(TileMaker(calc.size), calc.layer, calc.zoomLevel)
GridXs == {calc.slices[i].xOffset : i \in 1 .. Len(calc.slices)}
GridYs == {calc.slices[i].yOffset : i \in 1 .. Len(calc.slices)}

C11_GridCoverage ==
    GridReturned =>
        LET W == GridImage[1]
            H == GridImage[2]
            s == calc.slices
        IN  \* every column has the same rows
            /\ {<<s[i].xOffset, s[i].yOffset>> : i \in 1 .. Len(s)} = GridXs \X GridYs
            \* no gap
            /\ \A px \in 0 .. (W - 1) : \E xo \in GridXs : xo <= px /\ px < xo + TILE_PIXEL_SIZE[1]
            /\ \A py \in 0 .. (H - 1) : \E yo \in GridYs : yo <= py /\ py < yo + TILE_PIXEL_SIZE[2]
            \* consecutive crops are one tile apart, of tiles that are neighbours
            /\ \A i \in 1 .. (Len(s) - 1) :
                  IF s[i + 1].first
                  THEN /\ s[i + 1].x = s[i].x + 1
                       /\ s[i + 1].xOffset = s[i].xOffset + TILE_PIXEL_SIZE[1]
                  ELSE /\ s[i + 1].x = s[i].x /\ s[i + 1].xOffset = s[i].xOffset
                       /\ s[i + 1].y = s[i].y + 1
                       /\ s[i + 1].yOffset = s[i].yOffset - TILE_PIXEL_SIZE[2]
            \* every crop overlaps the image
            /\ \A i \in 1 .. Len(s) :
                  /\ s[i].xOffset < W /\ s[i].xOffset + TILE_PIXEL_SIZE[1] > 0
                  /\ s[i].yOffset < H /\ s[i].yOffset + TILE_PIXEL_SIZE[2] > 0

C11_Witness ==
    /\ GridReturned
    /\ calc.layer.origin = Some(<<-300, 255>>)
    /\ GridImage = <<600, 257>>
    /\ Len(calc.slices) >= 6

(***************************************************************************)
(* C12: for origin (0,0) and every image height H, the top edge (yOffset)  *)
(* of the crop rectangle of tile row 0 equals H mod 256 (0 if H is a       *)
(* multiple of 256).  This does not hold; what holds is stated below.      *)
(***************************************************************************)
\* the origin of the call is (0,0), given or by default
OriginZero == calc.layer.origin \in {None, Some(<<0, 0>>)}

\* the crops of tile row 0
RowZero == {i \in 1 .. Len(calc.slices) : calc.slices[i].y = 0}

C12_TopEdgeIsHMod256 ==
    (GridReturned /\ OriginZero) =>
        \A i \in RowZero : calc.slices[i].yOffset = GridImage[2] % TILE_PIXEL_SIZE[2]

(***************************************************************************)
(* C12, amended: for origin (0,0) and every image height H, the top edge   *)
(* of the crop rectangle of tile row 0 is H - 256, so that its bottom edge *)
(* is the bottom edge of the image; this is H mod 256 exactly when         *)
(* 256 <= H < 512.                                                         *)
(***************************************************************************)
C12_RowZeroAtBottom ==
    (GridReturned /\ OriginZero) =>
        /\ RowZero # {}
        /\ \A i \in RowZero :
              /\ calc.slices[i].yOffset = GridImage[2] - TILE_PIXEL_SIZE[2]
              /\ calc.slices[i].yOffset + TILE_PIXEL_SIZE[2] = GridImage[2]
              /\ (calc.slices[i].yOffset = GridImage[2] % TILE_PIXEL_SIZE[2])
                    <=> (TILE_PIXEL_SIZE[2] <= GridImage[2] /\ GridImage[2] < 2 * TILE_PIXEL_SIZE[2])

C12_Witness ==
    /\ GridReturned /\ OriginZero
    /\ GridImage[2] = 600
    /\ \E i \in RowZero : calc.slices[i].yOffset = 344

(***************************************************************************)
(* C13: for every crop and every optional transparent colour, the tile is  *)
(* written if and only if, after the colour-key pass, at least one pixel   *)
(* has non-zero alpha: then exactly one file is written, and none when     *)
(* every pixel ends at alpha 0.                                            *)
(***************************************************************************)
\* the crop after the colour-key pass has a pixel of non-zero alpha
VisibleAfterKey ==
    LET after == makeTransparent(calc.data, calc.transparentColour).data
    IN  \E index \in 1 .. Len(after) : after[index][4] # 0

C13_TransparencyOmission ==
    (calc.op = "tile" /\ calc.stage = "tested") =>
        /\ VisibleAfterKey => Len(calc.tilePromises) = 1
        /\ ~VisibleAfterKey => Len(calc.tilePromises) = 0

\* a crop that is not transparent before the pass and is after it
C13_Witness ==
    /\ calc.op = "tile" /\ calc.stage = "tested"
    /\ calc.data = <<Red, RedClear>>
    /\ calc.transparentColour = Some("red")
    /\ calc.tilePromises = <<>>

(***************************************************************************)
(* C16: for every pixel buffer and every transparent colour, applying      *)
(* makeTransparent twice yields the same pixel data and the same return    *)
(* value as applying it once.                                              *)
(***************************************************************************)
C16_ColourKeyIdempotent ==
    (calc.op = "tile" /\ calc.stage = "keyed again") =>
        /\ calc.keyedAgain.data = calc.keyed.data
        /\ calc.keyedAgain.result = calc.keyed.result

\* a pass that has changed a pixel and left one opaque
C16_Witness ==
    /\ calc.op = "tile" /\ calc.stage = "keyed again"
    /\ calc.data = <<Red, White>>
    /\ calc.keyed = [data |-> <<Clear, White>>, result |-> "false"]

(***************************************************************************)
(* C14: after a layer's regeneration has completed successfully, the tile  *)
(* files in the layer's directory are exactly the (zoom, x, y) of the      *)
(* current grid over the layer's zoom range whose crop is not fully        *)
(* transparent: no tile of an earlier build survives, and each tile path   *)
(* is written at most once in the build.                                   *)
(***************************************************************************)
\* the (zoom, x, y) of the grid of layer l whose crop of the raster of the
\* current source has, after the colour-key pass, a pixel of non-zero alpha
VisibleGrid(l) ==
    LET layer == LayerOf(l)
        range == zoomRange(This, layer)
        Crop(z, s) == cropImage(svgToPng(svg[l], svgExtent(layer), zoomedSize(This, layer, z)),
                                s.xOffset, s.yOffset, TILE_PIXEL_SIZE[1], TILE_PIXEL_SIZE[2])
        Visible(data) == \E index \in 1 .. Len(data) : data[index][4] # 0
    IN  UNION {{<<z, TileSlices(This, layer, z)[i].x, TileSlices(This, layer, z)[i].y>> :
                    i \in {j \in 1 .. Len(TileSlices(This, layer, z)) :
                              Visible(makeTransparent(Crop(z, TileSlices(This, layer, z)[j]),
                                                      layer.transparent).data)}} :
               z \in range[1] .. range[2]}

\* the regeneration of layer l has completed successfully in this run
Regenerated(l) == cleared[l] /\ lpc[l] = "done"

C14_TileSetAfterRegeneration ==
    \A l \in LayerIds :
        Regenerated(l) =>
            /\ {<<t.z, t.x, t.y>> : t \in disk[l].tiles} = VisibleGrid(l)
            /\ Cardinality(disk[l].tiles) = Cardinality(VisibleGrid(l))
            /\ disk[l].tiles = ExpectedTiles(l)
            /\ issued[l] = Cardinality(written[l])

\* a forced rebuild that has dropped a tile of the earlier build
C14_Witness ==
    \E l \in LayerIds :
        /\ Regenerated(l)
        /\ disk0[l].md5 # None
        /\ \E t \in disk0[l].tiles : <<t.z, t.x, t.y>> \notin VisibleGrid(l)
        /\ Cardinality(VisibleGrid(l)) >= 2

(***************************************************************************)
(* C15: the fingerprint computed in tileLayer_ is the same when computed   *)
(* again from the same inputs, and changes when one of source bytes, map   *)
(* size, sourceExtent, resolution, transparent colour or zoom range is     *)
(* changed, also from absent to an explicit value.                         *)
(***************************************************************************)
C15_FingerprintSensitive ==
    /\ (calc.op = "md5" /\ calc.stage = "hashed again") => calc.md5Hash = calc.before
    /\ (calc.op = "md5" /\ calc.stage = "edited") => calc.md5Hash # calc.before

(***************************************************************************)
(* C17: for a map of size [512,512] and a layer with sourceExtent          *)
(* [0,0,512,512], default origin and zoom range [0,1], the tiles attempted *)
(* at zoom 1 are exactly (x,y) in {0,1} x {0,1}, and the only tile         *)
(* attempted at zoom 0 is (0,0), whose crop covers the whole 256 x 256     *)
(* raster.                                                                 *)
(***************************************************************************)
\* the call is of the example
ExampleCall == calc.op = "tileZoomLevel_" /\ calc.size = ExampleSize /\ calc.layer = ExampleLayer

\* the tiles the call has attempted
GridTiles == {<<calc.slices[i].x, calc.slices[i].y>> : i \in 1 .. Len(calc.slices)}

C17_EndToEndExample ==
    (ExampleCall /\ GridReturned) =>
        /\ imageSize(TileMaker(calc.size), calc.layer) = <<512, 512>>
        /\ zoomRange(TileMaker(calc.size), calc.layer) = <<0, 1>>
        /\ calc.zoomLevel = 1 =>
              /\ GridTiles = {0, 1} \X {0, 1}
              /\ Len(calc.slices) = 4
        /\ calc.zoomLevel = 0 =>
              /\ GridImage = <<256, 256>>
              /\ Len(calc.slices) = 1
              /\ GridTiles = {<<0, 0>>}
              /\ calc.slices[1].xOffset = 0 /\ calc.slices[1].yOffset = 0
              /\ <<calc.slices[1].xOffset + TILE_PIXEL_SIZE[1],
                    calc.slices[1].yOffset + TILE_PIXEL_SIZE[2]>> = GridImage

C17_Witness == ExampleCall /\ GridReturned /\ calc.zoomLevel = 0 /\ Len(calc.slices) = 1

(***************************************************************************)
(* C18: makeTiles(layerId) with a layerId that is not null starts          *)
(* tileLayer_ for the layers whose id equals layerId only: the directory,  *)
(* the tiles and the fingerprint of every other layer stay as they were    *)
(* and no render of it is requested.  With layerId null tileLayer_ is      *)
(* started for every layer of the map.                                     *)
(***************************************************************************)
\* nothing of layer l has been run or changed
Untouched(l) ==
    /\ lpc[l] = "none"
    /\ lerr[l] = NoError
    /\ \A z \in AllZooms : zpc[l][z] = "none" /\ renderCalls[l][z] = 0
    /\ disk[l] = disk0[l]
    /\ ~cleared[l]
    /\ written[l] = {}
    /\ issued[l] = 0
    /\ pending[l] = {}

C18_LayerFilter ==
    /\ \A l \in LayerIds : (args.layer # "null" /\ args.layer # l) => Untouched(l)
    /\ Dispatched => \A l \in LayerIds : (args.layer = "null" \/ args.layer = l) => lpc[l] # "none"

\* a run for layer "a" only has rebuilt it, and the tiles of "b" of an earlier
\* build from another source are as they were
C18_Witness ==
    /\ args.layer = "a"
    /\ RunEnded
    /\ lpc["a"] = "done"
    /\ disk["a"] # disk0["a"]
    /\ disk0["b"].tiles # {}
    /\ Changed("b")
    /\ disk["b"] = disk0["b"]

(***************************************************************************)
(* C19: during a layer's regeneration exactly one render request           *)
(* (page.evaluate of svgToPng) is issued for each zoom level of the        *)
(* layer's zoom range, both ends included, [0, fullZoom] by default, and   *)
(* none for any other level, however many tiles the zoom level has; every  *)
(* tile of a (layer, zoom) is a crop of the raster of that one request.    *)
(***************************************************************************)
\* the tiles of zoom level z that the run has written into the directory
TilesWritten(l, z) == {t \in disk[l].tiles : cleared[l] /\ t.z = z /\ <<t.z, t.x, t.y>> \in written[l]}

RECURSIVE normalize(_, _)
normalize(done, rest) ==
    IF rest = <<>> THEN done
    ELSE IF Head(rest) \in {"", "."} THEN normalize(done, Tail(rest))
    ELSE IF Head(rest) = ".." /\ done # <<>> /\ done[Len(done)] # ".."
    THEN normalize(SubSeq(done, 1, Len(done) - 1), Tail(rest))
    ELSE normalize(Append(done, Head(rest)), Tail(rest))

\* path.join(directory, ...names)
join(directory, names) == normalize(<<>>, directory \o names)

\* args.output
outputDirectory == <<"out">>

\* this._tileDirectory
this_tileDirectory == join(outputDirectory, <<"tiles">>)

\* layerTileDirectory of a program that keeps the tiles of all layers together
layerTileDirectoryShared(l) == this_tileDirectory

layerTileDirectory(l) == join(this_tileDirectory, <<LayerOf(l).id>>)

md5File(l) == join(layerTileDirectory(l), <<"layer.md5">>)

tileDirectory(l, z, x) == join(layerTileDirectory(l), <<ToString(z), ToString(x)>>)

\* path.join(tileDirectory, `${y}.png`)
tileFile(l, z, x, y) == join(tileDirectory(l, z, x), <<ToString(y) \o ".png">>)

\* path p is q or an ancestor of q: what is done to p is done to q
IsPrefix(p, q) == Len(p) <= Len(q) /\ SubSeq(q, 1, Len(p)) = p

\* the paths that the task of layer l has so far cleared (fs.emptyDir),
\* created (fs.mkdirSync, recursive) or written (tile.writeAsync,
\* fs.writeFileSync)
Touched(l) ==
    (IF cleared[l]
     THEN {layerTileDirectory(l)}
          \cup UNION {{join(layerTileDirectory(l), <<ToString(d[1])>>), tileDirectory(l, d[1], d[2])} :
                         d \in disk[l].dirs}
     ELSE {})
    \cup {tileFile(l, w[1], w[2], w[3]) : w \in written[l]}
    \cup (IF cleared[l] /\ disk[l].md5 # None THEN {md5File(l)} ELSE {})

(***************************************************************************)
(* C20: the output tree is partitioned by layer id: under any interleaving *)
(* of the tasks of layers of distinct ids, every file or directory that a  *)
(* layer's task creates, clears or writes (tiles and fingerprint) lies     *)
(* under that layer's own directory, so that no two tasks ever write or    *)
(* clear the same path, nor one a path under a directory the other clears. *)
(***************************************************************************)
C20_PartitionedByLayer ==
    /\ \A l \in LayerIds : \A p \in Touched(l) :
          /\ IsPrefix(layerTileDirectory(l), p)
          /\ IsPrefix(this_tileDirectory, p) /\ p # this_tileDirectory
    /\ \A l \in LayerIds : \A k \in LayerIds \ {l} :
          \A p \in Touched(l) : \A q \in Touched(k) : ~IsPrefix(p, q)

\* the tasks of both layers are at work at once, each with its directory
\* cleared, a tile directory made and a write in flight
C20_Witness ==
    /\ \A l \in LayerIds :
          /\ lpc[l] = "zooms"
          /\ pending[l] # {}
          /\ written[l] # {}
          /\ Cardinality(Touched(l)) >= 4
    /\ \E l \in LayerIds : \E t \in disk[l].tiles : <<t.z, t.x, t.y>> \in written[l]

(***************************************************************************)
(* C21: the creation of tile directories is safe under concurrency: under  *)
(* any interleaving of the zoom-level tasks of a layer, which suspend at   *)
(* each render and each crop, every tile write is issued only after its    *)
(* zoom/x directory exists, and the creation of a directory that exists    *)
(* already never produces an error.                                        *)
(***************************************************************************)
\* the x of the tile directories of zoom level z of layer l
ColumnsOf(l, z) ==
    {TileSlices(This, LayerOf(l), z)[i].x : i \in 1 .. Len(TileSlices(This, LayerOf(l), z))}

C21_DirectoryCreationSafe ==
    \A l \in LayerIds :
        \* a write in flight, and a tile written, has its directory
        /\ \A w \in pending[l] : existsSync(disk[l], w.z, w.x)
        /\ \A t \in disk[l].tiles : existsSync(disk[l], t.z, t.x)
        \* dirExists of a task that awaits a crop is not stale
        /\ \A z \in AllZooms :
              (zpc[l][z] = "crop" /\ dirExists[l][z]) =>
                  existsSync(disk[l], z, TileSlices(This, LayerOf(l), z)[zpos[l][z]].x)
        \* mkdirSync of any tile directory, there or not, gives no error
        /\ \A z \in AllZooms : \A x \in ColumnsOf(l, z) :
              /\ ~mkdirSync(disk[l], z, x).error
              /\ existsSync(mkdirSync(disk[l], z, x).directory, z, x)
              /\ existsSync(disk[l], z, x) => mkdirSync(disk[l], z, x).directory = disk[l]
        /\ lerr[l].kind # "mkdir"
        /\ \A z \in AllZooms : zpc[l][z] = "failed" => <<l, z>> \in faults \/ browser = "closed"

\* the tasks of two zoom levels of a layer run at once: one awaits a crop
\* while a write of the other is in flight, both directories made
C21_Witness ==
    \E l \in LayerIds : \E z \in AllZooms : \E w \in pending[l] :
        /\ zpc[l][z] = "crop"
        /\ w.z # z
        /\ existsSync(disk[l], w.z, w.x)
        /\ \E x \in ColumnsOf(l, z) : existsSync(disk[l], z, x)
        /\ cleared[l]

(***************************************************************************)
(* C22: fullZoom of the constructor is the least zoom level z such that    *)
(* the tiled canvas (256 x tileDims on each axis) divided by 2^z fits in   *)
(* one 256 x 256 tile; hence, for a layer without resolution and with the  *)
(* default origin, zoom level 0 has exactly one tile, (0,0).               *)
(***************************************************************************)
\* the tiled canvas of this, halved z times, fits in one tile
FitsOneTile(this, z) ==
    /\ this.tiledSize[1] <= TILE_PIXEL_SIZE[1] * Pow2(z)
    /\ this.tiledSize[2] <= TILE_PIXEL_SIZE[2] * Pow2(z)

C22_FullZoomIsLeast ==
    calc.op = "tileZoomLevel_" =>
        LET this == TileMaker(calc.size)
        IN  /\ this.tiledSize = <<TILE_PIXEL_SIZE[1] * this.tileDims[1], TILE_PIXEL_SIZE[2] * this.tileDims[2]>>
            /\ this.tiledSize[1] >= calc.size[1] /\ this.tiledSize[2] >= calc.size[2]
            /\ this.fullZoom >= 0
            /\ FitsOneTile(this, this.fullZoom)
            /\ \A z \in 0 .. (this.fullZoom - 1) : ~FitsOneTile(this, z)
            /\ (/\ GridReturned
                /\ calc.zoomLevel = 0
                /\ calc.layer.resolution = None
                /\ calc.layer.origin = None) =>
                   /\ Len(calc.slices) = 1
                   /\ calc.slices[1].x = 0 /\ calc.slices[1].y = 0
                   \* the tile holds the whole raster
                   /\ calc.slices[1].xOffset = 0
                   /\ GridImage[1] <= TILE_PIXEL_SIZE[1]
                   /\ calc.slices[1].yOffset <= 0
                   /\ calc.slices[1].yOffset + TILE_PIXEL_SIZE[2] = GridImage[2]

\* a map of 3 x 3 tiles: fullZoom is 2, and zoom level 0 has returned its
\* one tile of the raster of 150 x 150
C22_Witness ==
    /\ GridReturned
    /\ calc.size = <<600, 600>>
    /\ TileMaker(calc.size).tileDims = <<3, 3>>
    /\ TileMaker(calc.size).fullZoom = 2
    /\ calc.zoomLevel = 0
    /\ calc.layer.resolution = None /\ calc.layer.origin = None
    /\ GridImage = <<150, 150>>
    /\ Len(calc.slices) = 1

(***************************************************************************)
(* C23: makeTiles closes the browser only after the task of every layer it *)
(* has started has settled: in no reachable state is the browser closed    *)
(* while a layer's task still has a render request, a tile write or the    *)
(* write of its fingerprint outstanding.                                   *)
(***************************************************************************)
\* the task of layer l, or a zoom-level task or tile write it has started,
\* is still at work
Outstanding(l) ==
    \/ ~LayerSettled(l)
    \/ \E z \in AllZooms : ~ZoomSettled(l, z)
    \/ pending[l] # {}

C23_BrowserClosedAfterSettled ==
    browser = "closed" => \A l \in LayerIds : ~Outstanding(l)
====
